---- MODULE Spec2Model ----
(***************************************************************************)
(* A model of the dataset artifact cache and derivation pipeline of       *)
(* megastep's cubicasa package (src/cubicasa/__init__.py) and of two       *)
(* helpers it runs beside:                                                 *)
(*   - KeyTree: flatten / unflatten of nested mappings,                    *)
(*   - DatasetSampler: sample() and its process-wide _cache,               *)
(*   - ArtifactCache: svg_data() / geometry_data() over the .cache files,  *)
(*   - ParallelDerivation: the pool of safe_geometry workers,              *)
(*   - BinaryArrayCodec: np.savez as the writer, fastload as the reader,   *)
(*   - Interrupter (src/rebar/interrupting.py),                            *)
(*   - parasite / _encode (src/onedee/recording.py).                       *)
(* Each part has its own specification over the shared variables; the      *)
(* variables of the other parts stay parked at their initial values.       *)
(***************************************************************************)
EXTENDS Integers, Sequences, FiniteSets, TLC

VARIABLES
    \* ---- KeyTree (flatten / unflatten) ----
    ktStage,    \* "tree_in" | "flattened" | "tree_back" | "flat_in" | "unflattened" | "flat_back" | "off"
    ktIn,       \* the value the run started from (a mapping or a flat record)
    ktCur,      \* the value produced by the last flatten / unflatten
    ktRank,     \* iteration order of the mappings handed to flatten
    ktOk,       \* FALSE when unflatten raised
    \* ---- DatasetSampler (sample and its module-level _cache) ----
    disk,       \* .cache/cubicasa-geometry.npz.gz as sample() sees it: Absent or a dataset
    _cache,     \* the module-level _cache: None, or the mapping id -> item
    loads,      \* how many times geometry_data() has been called by sample
    last,       \* the last completed call of the sequential specification
    pc,         \* per caller: the line of sample() it is about to execute
    arg,        \* per caller: the arguments of the call in progress
    res,        \* per caller: the outcome of its last completed call
    wrote,      \* per caller: whether the call in progress has assigned _cache
    \* ---- ArtifactCache and ParallelDerivation (svg_data, geometry_data) ----
    fs,         \* the files under .cache: zip, svg, geom, each Absent or its contents
    call,       \* the svg_data / geometry_data call in progress or last completed
    pool,       \* the items dispatched to the pool by the call in progress
    workers,    \* the number of workers of that pool
    gs,         \* the mapping of successful results (line 112, before flatten)
    \* ---- BinaryArrayCodec (np.savez as the encoder, fastload as the decoder) ----
    cdStage,    \* "array" | "encoded" | "decoded" | "blob" | "loaded" | "off"
    cdIn,       \* the array handed to the encoder, or the header of a foreign blob
    cdRaw,      \* the bytes of one archive entry
    cdOut,      \* what fastload returned, or the error it raised
    \* ---- Interrupter (rebar/interrupting.py) ----
    _is_set,    \* Interrupter._is_set
    ckPc,       \* the line of check() the caller is about to execute, or "idle"
    sigs,       \* handle() calls since the flag was last cleared by reset()
    lastCheck,  \* the outcome of the last check(), and sigs when it was decided
    raises,      \* the number of KeyboardInterrupts check() has raised
    \* ---- recording (onedee/recording.py: parasite and _encode) ----
    clock,      \* time.time()
    start,      \* parasite: start
    start0,     \* the value start was given at line 42
    states,     \* parasite: states, the buffer of captured states
    caps,       \* the number of states captured so far; a state is known by its number
    rcPc,       \* where the generator stands: "new", a line it is about to run, or a yield
    rcLen,      \* parasite: length
    rcPeriod,   \* parasite: period
    futures,    \* _encode: futures, one per buffered state
    fut,        \* _encode: the index of the for loop over futures
    fed,        \* the frames the encoder has been called with, in call order
    path,       \* the contents of the recording file, or Absent
    writes      \* the number of videos written

ktVars == <<ktStage, ktIn, ktCur, ktRank, ktOk>>
smVars == <<disk, _cache, loads, last, pc, arg, res, wrote>>
caVars == <<fs, call, pool, workers, gs>>
cdVars == <<cdStage, cdIn, cdRaw, cdOut>>
inVars == <<_is_set, ckPc, sigs, lastCheck, raises>>
rcVars == <<clock, start, start0, states, caps, rcPc, rcLen, rcPeriod, futures, fut, fed, path, writes>>

\* the variables outside one part
notKt == <<smVars, caVars, cdVars, inVars, rcVars>>
notSm == <<ktVars, caVars, cdVars, inVars, rcVars>>
notCa == <<ktVars, smVars, cdVars, inVars, rcVars>>
notCd == <<ktVars, smVars, caVars, inVars, rcVars>>
notIn == <<ktVars, smVars, caVars, cdVars, rcVars>>
notRc == <<ktVars, smVars, caVars, cdVars, inVars>>

vars == <<ktStage, ktIn, ktCur, ktRank, ktOk, disk, _cache, loads, last, pc, arg, res, wrote,
          fs, call, pool, workers, gs, cdStage, cdIn, cdRaw, cdOut,
          _is_set, ckPc, sigs, lastCheck, raises,
          clock, start, start0, states, caps, rcPc, rcLen, rcPeriod, futures, fut, fed, path, writes>>

(***************************************************************************)
(* Bounds                                                                  *)
(***************************************************************************)
MaxEntries == 3     \* entries of an input mapping / flat record
MaxN == 3           \* items of the dataset on disk
MaxCount == 4       \* n_designs of a sample call
NumCallers == 2     \* concurrent callers of sample
RaceCount == 1      \* n_designs of a sample call made by a concurrent caller
MaxItems == 2       \* designs of the svg corpus
MaxWorkers == 2     \* workers of the derivation pool

(***************************************************************************)
(* Generic helpers                                                         *)
(***************************************************************************)
Range(s) == {s[i] : i \in 1..Len(s)}

RECURSIVE SetsUpTo(_, _)
SetsUpTo(X, n) ==
    IF n = 0 THEN {{}}
    ELSE LET P == SetsUpTo(X, n - 1) IN P \cup {s \cup {x} : s \in P, x \in X}

RECURSIVE SeqsUpTo(_, _)
SeqsUpTo(X, n) ==
    IF n = 0 THEN {<<>>}
    ELSE LET P == SeqsUpTo(X, n - 1) IN P \cup {Append(s, x) : s \in P, x \in X}

Perms(S) == {p \in SeqsUpTo(S, Cardinality(S)) : Len(p) = Cardinality(S) /\ Range(p) = S}

(***************************************************************************)
(* KeyTree values.  A key is a string, modelled as a sequence of           *)
(* characters so that joining with '/' and splitting on '/' are real       *)
(* operations.  A mapping is a function from keys to nodes; a node is a    *)
(* leaf (an array, abstracted to a value) or a nested mapping.             *)
(***************************************************************************)
Slash == "/"

Leaf(v) == [kind |-> "leaf", val |-> v, kids |-> <<>>]
Map(kids) == [kind |-> "map", val |-> "none", kids |-> kids]
EmptyKids == <<>>

Assign(kids, k, node) ==
    [x \in (DOMAIN kids) \cup {k} |-> IF x = k THEN node ELSE kids[x]]

\* f'{k}/{kk}'
JoinNoSeparator(k, kk) == k \o kk
Join(k, kk) == k \o <<Slash>> \o kk

\* k.split('/')
SplitNothing(s) == <<s>>
RECURSIVE Split(_)
Split(s) ==
    IF \A i \in 1..Len(s) : s[i] # Slash THEN <<s>>
    ELSE LET i == CHOOSE j \in 1..Len(s) :
                      s[j] = Slash /\ \A h \in 1..(j - 1) : s[h] # Slash
         IN <<SubSeq(s, 1, i - 1)>> \o Split(SubSeq(s, i + 1, Len(s)))

\* A flat record is a Python dict: pairs in insertion order, keys distinct.
FlatKeysOf(flat) == {flat[i].k : i \in 1..Len(flat)}
FlatGet(flat, k) == (CHOOSE i \in 1..Len(flat) : flat[i].k = k)
AsMap(flat) == [k \in FlatKeysOf(flat) |-> flat[FlatGet(flat, k)].v]

\* flat[k] = v : an existing key keeps its position and takes the new value
FlatPut(flat, k, v) ==
    IF k \in FlatKeysOf(flat)
    THEN [flat EXCEPT ![FlatGet(flat, k)] = [k |-> k, v |-> v]]
    ELSE Append(flat, [k |-> k, v |-> v])

\* the keys of a mapping in its iteration order
Items(kids, rank) == SelectSeq(rank, LAMBDA k : k \in DOMAIN kids)

\* flatten(tree), lines 60-68
RECURSIVE flatten(_, _)
flatten(tree, rank) ==
    LET keys == Items(tree, rank)
        RECURSIVE inner(_, _, _)
        inner(flat, k, sub) ==
            IF sub = <<>> THEN flat
            ELSE inner(FlatPut(flat, Join(k, Head(sub).k), Head(sub).v), k, Tail(sub))
        RECURSIVE outer(_, _)
        outer(i, flat) ==
            IF i > Len(keys) THEN flat
            ELSE LET k == keys[i]
                     v == tree[k]
                 IN IF v.kind = "map"
                    THEN outer(i + 1, inner(flat, k, flatten(v.kids, rank)))
                    ELSE outer(i + 1, FlatPut(flat, k, v.val))
    IN outer(1, <<>>)

\* lines 73-77 for one (k, v): walk / create the intermediate nodes, assign the leaf.
\* Indexing into a leaf (an array) with a string raises.
RECURSIVE SetPath(_, _, _)
SetPath(kids, parts, v) ==
    IF Len(parts) = 1
    THEN [ok |-> TRUE, kids |-> Assign(kids, parts[1], Leaf(v))]
    ELSE LET p == Head(parts)
             child == IF p \in DOMAIN kids THEN kids[p] ELSE Map(EmptyKids)
         IN IF child.kind = "leaf"
            THEN [ok |-> FALSE, kids |-> EmptyKids]
            ELSE LET sub == SetPath(child.kids, Tail(parts), v)
                 IN IF sub.ok
                    THEN [ok |-> TRUE, kids |-> Assign(kids, p, Map(sub.kids))]
                    ELSE [ok |-> FALSE, kids |-> EmptyKids]

\* unflatten(d), lines 70-78
RECURSIVE unflattenFrom(_, _, _)
unflattenFrom(d, i, tree) ==
    IF i > Len(d) THEN [ok |-> TRUE, kids |-> tree]
    ELSE LET r == SetPath(tree, Split(d[i].k), d[i].v)
         IN IF r.ok THEN unflattenFrom(d, i + 1, r.kids)
            ELSE [ok |-> FALSE, kids |-> EmptyKids]

unflatten(d) == unflattenFrom(d, 1, EmptyKids)

(***************************************************************************)
(* KeyTree inputs                                                          *)
(***************************************************************************)
KeyA == <<"a">>
KeyB == <<"b">>
KeyAB == <<"a", Slash, "b">>         \* a raw key that contains the joiner

RawKeys == {KeyA, KeyB, KeyAB}
PlainKeys == {KeyA, KeyB}
LeafVals == {"v1", "v2"}
EmptyMark == "empty"                     \* marks an empty mapping-valued entry

TreePaths == {<<k>> : k \in RawKeys} \cup {<<j, k>> : j \in RawKeys, k \in RawKeys}
Terminals == [path : TreePaths, term : LeafVals \cup {EmptyMark}]

IsPrefix(p, q) == Len(p) <= Len(q) /\ SubSeq(q, 1, Len(p)) = p

PrefixFree(S) == \A t \in S, u \in S : t # u => ~IsPrefix(t.path, u.path)

RECURSIVE BuildTree(_)
BuildTree(S) ==
    LET heads == {t.path[1] : t \in S}
        under(h) == {t \in S : t.path[1] = h}
        node(h) ==
            IF \E t \in under(h) : Len(t.path) = 1
            THEN LET t == CHOOSE t \in under(h) : Len(t.path) = 1
                 IN IF t.term = EmptyMark THEN Map(EmptyKids) ELSE Leaf(t.term)
            ELSE Map(BuildTree({[path |-> Tail(t.path), term |-> t.term] : t \in under(h)}))
    IN [h \in heads |-> node(h)]

InputTrees == {BuildTree(S) : S \in {T \in SetsUpTo(Terminals, MaxEntries) : PrefixFree(T)}}

\* the keys "a", "b", "a/a", "a/b", "b/a", "b/b"
FlatKeys == PlainKeys \cup {j \o <<Slash>> \o k : j \in PlainKeys, k \in PlainKeys}
FlatPairs == [k : FlatKeys, v : LeafVals]
InputFlats ==
    {f \in SeqsUpTo(FlatPairs, MaxEntries) :
        \A i \in 1..Len(f), j \in 1..Len(f) : i # j => f[i].k # f[j].k}

Ranks == Perms(RawKeys)

(***************************************************************************)
(* DatasetSampler values.  An id is a natural number standing for the      *)
(* string key of a design; sorted() is ascending order.  An item is the    *)
(* mapping stored under a key: its own 'id' entry (NoId when it has none)  *)
(* and the rest of its contents, which are particular to its key.          *)
(***************************************************************************)
None == <<>>                     \* _cache before the first call
Absent == <<>>                   \* no file at the path
Some(x) == <<x>>                 \* a built _cache / the contents of a file
NoId == <<>>
ForeignId == <<MaxN + 1>>        \* an 'id' entry an item on disk brings along

Ids == 1..MaxN

\* a dataset: the keys in iteration order, and the item under each key
Dataset(order, own) ==
    [order |-> order,
     items |-> [k \in Range(order) |-> [id |-> own[k], geom |-> k]]]

IdOrders ==
    {o \in SeqsUpTo(Ids, MaxN) : \A i \in 1..Len(o), j \in 1..Len(o) : i # j => o[i] # o[j]}

\* at most one item of a dataset on disk has an 'id' entry of its own
OwnIds(S) ==
    {[k \in S |-> NoId]} \cup {[k \in S |-> IF k = h THEN ForeignId ELSE NoId] : h \in S}

Datasets == UNION {{Dataset(o, own) : own \in OwnIds(Range(o))} : o \in IdOrders}

\* the datasets whose keys were stored in ascending order
SortedDatasets == {d \in Datasets : \A i \in 1..Len(d.order), j \in 1..Len(d.order) : i < j => d.order[i] < d.order[j]}

Splits == {"training", "test", "all", "bogus"}

\* what the network delivers to one fetch: nothing (the fetch raises) or a payload
NetDown == <<>>
Raised == [ok |-> FALSE, val |-> <<>>]
Returned(x) == [ok |-> TRUE, val |-> x]

\* download(url), lines 18-28: requests.get raises on the empty url (it has no
\* scheme); on any other url it returns the payload delivered, or raises.
download(url, net) == IF url = "" \/ net = NetDown THEN Raised ELSE Returned(net[1])

\* geometry_data() as sample calls it (regenerate=False), lines 105-126 with
\* url = '' at line 119: the file's contents when it exists, else the fetch.
GeometryUrl == ""
geometry_data_cached(file, net) ==
    IF file # Absent THEN Returned(file[1]) ELSE download(GeometryUrl, net)

\* {'id': k, **v}, line 134: the entries of v come last and win
AugmentItem(k, v) == [id |-> IF v.id # NoId THEN v.id ELSE <<k>>, geom |-> v.geom]

\* line 134
Augment(c) == [order |-> c.order, items |-> [k \in DOMAIN c.items |-> AugmentItem(k, c.items[k])]]

\* sorted(_cache)
RECURSIVE SortSet(_)
SortSet(S) ==
    IF S = {} THEN <<>>
    ELSE LET m == CHOOSE x \in S : \A y \in S : x <= y IN <<m>> \o SortSet(S \ {m})

\* np.random.RandomState(1).permutation(n), as positions 1..n, for n = 0..8
\* (the Mersenne Twister seeded with 1 and numpy's legacy shuffle)
Permutation1 ==
    << <<1>>,
       <<1, 2>>,
       <<1, 3, 2>>,
       <<4, 3, 1, 2>>,
       <<3, 2, 5, 1, 4>>,
       <<3, 2, 5, 1, 4, 6>>,
       <<7, 3, 2, 1, 5, 4, 6>>,
       <<8, 3, 2, 7, 1, 5, 4, 6>> >>

\* line 137
OrderAsStored(c) ==
    LET ids == c.order
        n == Len(ids)
    IN IF n = 0 THEN <<>> ELSE [i \in 1..n |-> ids[Permutation1[n][i]]]
Order(c) ==
    LET ids == SortSet(DOMAIN c.items)
        n == Len(ids)
    IN IF n = 0 THEN <<>> ELSE [i \in 1..n |-> ids[Permutation1[n][i]]]

\* line 136: int(.9*len(_cache))
Cutoff(c) == (9 * Cardinality(DOMAIN c.items)) \div 10

\* lines 138-143 (the split is one of training / test / all)
SplitIdsTestUnsliced(c, split) ==
    LET order == Order(c)
    IN IF split = "training" THEN SubSeq(order, 1, Cutoff(c)) ELSE order
SplitIds(c, split) ==
    LET order == Order(c)
    IN IF split = "training" THEN SubSeq(order, 1, Cutoff(c))
       ELSE IF split = "test" THEN SubSeq(order, Cutoff(c) + 1, Len(order))
       ELSE order

\* lines 136-147 on a built cache c
SelectClamped(c, n, split) ==
    IF split \notin {"training", "test", "all"}
    THEN [status |-> "ValueError", items |-> <<>>]
    ELSE LET order == SplitIds(c, split)
             m == IF n < Len(order) THEN n ELSE Len(order)
         IN [status |-> "ok", items |-> [i \in 1..m |-> c.items[order[i]]]]
Select(c, n, split) ==
    IF split \notin {"training", "test", "all"}
    THEN [status |-> "ValueError", items |-> <<>>]
    ELSE LET order == SplitIds(c, split)
         IN IF n > 0 /\ Len(order) = 0
            THEN [status |-> "ZeroDivisionError", items |-> <<>>]
            ELSE [status |-> "ok",
                  items |-> [i \in 1..n |-> c.items[order[((i - 1) % Len(order)) + 1]]]]

(***************************************************************************)
(* ArtifactCache values.  A corpus maps design ids to svgs; an svg either  *)
(* has extractable geometry or not.  The three files hold a zip of the raw *)
(* corpus, the gzipped json table of svgs, and the gzipped archive of the  *)
(* flattened geometry.                                                     *)
(***************************************************************************)
DesignIds == 1..MaxItems
SvgKinds == {"plan", "nospace"}
Svg(i, kind) == [id |-> i, kind |-> kind]

Corpora == UNION {[S -> SvgKinds] : S \in SUBSET DesignIds}
CorpusRows(c) == [i \in DOMAIN c |-> Svg(i, c[i])]

ZipOf(c) == [fmt |-> "zip", svgs |-> CorpusRows(c), pngs |-> DOMAIN c]
CorruptZip == [fmt |-> "garbage", svgs |-> <<>>, pngs |-> {}]
SvgCache(rows) == [fmt |-> "json.gz", rows |-> rows]
GeomCache(flat) == [fmt |-> "npz.gz", entries |-> flat]

\* pd.read_json(gzip.decompress(p.read_bytes())), line 58
ReadSvg(content) == content.rows
\* lines 123-125: the archive's entries by name
ReadGeom(content) == content.entries
\* lines 45-52: the table of the zip's svg members
RegenRows(zip) == zip.svgs

ZipUrl == "https://zenodo.org/record/2613548/files/cubicasa5k.zip?download=1"
SvgUrl == "https://www.dropbox.com/s/iblduqobhqomz4g/cubicasa-svgs.json.gzip?raw=1"

\* what the two remote locations serve
RemoteCorpus == [i \in DesignIds |-> IF i = 1 THEN "nospace" ELSE "plan"]
PrebuiltCorpus == [i \in DesignIds |-> "plan"]
Remote(url) ==
    IF url = ZipUrl THEN Some(ZipOf(RemoteCorpus))
    ELSE IF url = SvgUrl THEN Some(SvgCache(CorpusRows(PrebuiltCorpus)))
    ELSE NetDown
Net(up, url) == IF up THEN Remote(url) ELSE NetDown

\* p.write_bytes(<expression>): the expression is evaluated first; when it
\* raises, the file is not opened.
write_bytes_streaming(old, r) == IF r.ok THEN Some(r.val) ELSE Some([fmt |-> "truncated"])
write_bytes(old, r) == IF r.ok THEN Some(r.val) ELSE old

\* `not p.exists() or regenerate`, lines 40 and 106
NeedsBuildAlways(file, regenerate) == TRUE
NeedsBuild(file, regenerate) == file = Absent \/ regenerate

\* cubicasa5k(), lines 30-36
cubicasa5k(f, up) ==
    IF f.zip # Absent THEN [ok |-> TRUE, fs |-> f, events |-> {}]
    ELSE LET d == download(ZipUrl, Net(up, ZipUrl))
         IN [ok |-> d.ok,
             fs |-> [f EXCEPT !.zip = write_bytes(f.zip, d)],
             events |-> {"download_zip"} \cup (IF d.ok THEN {"write_zip"} ELSE {})]

\* svg_data(regenerate), lines 38-58
svg_data(f, regenerate, up) ==
    IF ~NeedsBuild(f.svg, regenerate)
    THEN [status |-> "ok", fs |-> f, events |-> {}, ret |-> Some(ReadSvg(f.svg[1]))]
    ELSE IF regenerate
    THEN LET z == cubicasa5k(f, up)
             payload == IF z.ok /\ z.fs.zip[1].fmt = "zip"
                        THEN Returned(SvgCache(RegenRows(z.fs.zip[1])))
                        ELSE Raised
             f2 == [z.fs EXCEPT !.svg = write_bytes(z.fs.svg, payload)]
         IN [status |-> IF payload.ok THEN "ok" ELSE "raised",
             fs |-> f2,
             events |-> z.events \cup {"regen_svg"}
                           \cup (IF payload.ok THEN {"write_svg"} ELSE {}),
             ret |-> IF payload.ok THEN Some(ReadSvg(f2.svg[1])) ELSE <<>>]
    ELSE LET d == download(SvgUrl, Net(up, SvgUrl))
             f2 == [f EXCEPT !.svg = write_bytes(f.svg, d)]
         IN [status |-> IF d.ok THEN "ok" ELSE "raised",
             fs |-> f2,
             events |-> {"download_svg"} \cup (IF d.ok THEN {"write_svg"} ELSE {}),
             ret |-> IF d.ok THEN Some(ReadSvg(f2.svg[1])) ELSE <<>>]

\* geometry.geometry(svg): the opaque per-item transform; it raises on an svg
\* without spaces.
geometry(svg) ==
    IF svg.kind = "nospace" THEN Raised
    ELSE IF svg.id % 2 = 1
    THEN Returned((KeyA :> Leaf("v1")))
    ELSE Returned((KeyA :> Leaf("v2")) @@ (KeyB :> Map((KeyA :> Leaf("v1")))))

\* safe_geometry(id, svg), lines 80-87: the result, or None when geometry raises
safe_geometry(id, svg) ==
    LET g == geometry(svg) IN IF g.ok THEN Some(g.val) ELSE None

\* str(row.id)
IdKey(i) == <<ToString(i)>>

\* {k: v for k, v in gs.items() if v is not None}, line 112
KeepAll(results) ==
    [k \in {IdKey(i) : i \in DOMAIN results} |->
        LET r == results[CHOOSE i \in DOMAIN results : IdKey(i) = k]
        IN IF r = None THEN Map(EmptyKids) ELSE Map(r[1])]
KeepSuccessful(results) ==
    [k \in {IdKey(i) : i \in {j \in DOMAIN results : results[j] # None}} |->
        Map(results[CHOOSE i \in DOMAIN results : IdKey(i) = k][1])]

\* the iteration order of gs and of the geometry mappings
GsRank == [i \in 1..MaxItems |-> IdKey(i)] \o <<KeyA, KeyB>>

\* lines 112-116: flatten, savez, gzip
GeomPayload(kept) == GeomCache(flatten(kept, GsRank))

\* lines 123-126 on the file's contents: the call's return value, or a raise
LoadGeom(content) ==
    LET u == unflatten(ReadGeom(content))
    IN IF u.ok THEN Returned(u.kids) ELSE Raised

\* the geometry cache a complete regeneration over corpus c writes
DerivedFrom(c) ==
    GeomPayload(KeepSuccessful([i \in DOMAIN c |-> safe_geometry(i, Svg(i, c[i]))]))

(***************************************************************************)
(* Parked values: what the variables of a part hold in the specifications  *)
(* of the other parts.                                                     *)
(***************************************************************************)
Callers == 1..NumCallers

NoCall == [n |-> 0, split |-> "none", status |-> "none", items |-> <<>>, wrote |-> FALSE,
           before |-> None]
NoArg == [n |-> 0, split |-> "none"]

KtOff ==
    /\ ktStage = "off"
    /\ ktIn = <<>>
    /\ ktCur = <<>>
    /\ ktRank = <<>>
    /\ ktOk = TRUE

CallersIdle ==
    /\ pc = [t \in Callers |-> "idle"]
    /\ arg = [t \in Callers |-> NoArg]
    /\ res = [t \in Callers |-> NoCall]
    /\ wrote = [t \in Callers |-> FALSE]

SmOff ==
    /\ disk = Absent
    /\ _cache = None
    /\ loads = 0
    /\ last = NoCall
    /\ CallersIdle

NoFiles == [zip |-> Absent, svg |-> Absent, geom |-> Absent]
NoCacheCall ==
    [fn |-> "none", regenerate |-> FALSE, up |-> FALSE, status |-> "none", events |-> {},
     pre |-> Absent, ret |-> <<>>]

CaOff ==
    /\ fs = NoFiles
    /\ call = NoCacheCall
    /\ pool = <<>>
    /\ workers = 0
    /\ gs = <<>>

CdOff ==
    /\ cdStage = "off"
    /\ cdIn = <<>>
    /\ cdRaw = <<>>
    /\ cdOut = <<>>

NoCheck == [out |-> "none", sigs |-> 0]

InOff ==
    /\ _is_set = FALSE
    /\ ckPc = "idle"
    /\ sigs = 0
    /\ lastCheck = NoCheck
    /\ raises = 0

RcOff ==
    /\ clock = 0
    /\ start = 0
    /\ start0 = 0
    /\ states = <<>>
    /\ caps = 0
    /\ rcPc = "off"
    /\ rcLen = 0
    /\ rcPeriod = 0
    /\ futures = <<>>
    /\ fut = 0
    /\ fed = <<>>
    /\ path = Absent
    /\ writes = 0

\* the codec, the interrupter and the recorder parked
RestOff == CdOff /\ InOff /\ RcOff

\* every part but one stays parked
Parked(part) ==
    /\ part = "kt" \/ KtOff
    /\ part = "sm" \/ SmOff
    /\ part = "ca" \/ CaOff
    /\ part = "cd" \/ CdOff
    /\ part = "in" \/ InOff
    /\ part = "rc" \/ RcOff

(***************************************************************************)
(* KeyTree specification                                                   *)
(***************************************************************************)
KtInit ==
    /\ ktRank \in Ranks
    /\ ktOk = TRUE
    /\ ktCur = <<>>
    /\ \/ ktStage = "tree_in" /\ ktIn \in InputTrees
       \/ ktStage = "flat_in" /\ ktIn \in InputFlats
    /\ SmOff
    /\ CaOff
    /\ RestOff

\* flatten applied to the input mapping, or to what unflatten returned
KtFlatten ==
    /\ \/ ktStage = "tree_in" /\ ktStage' = "flattened" /\ ktCur' = flatten(ktIn, ktRank)
       \/ ktStage = "unflattened" /\ ktOk /\ ktStage' = "flat_back"
            /\ ktCur' = flatten(ktCur, ktRank)
    /\ UNCHANGED <<ktIn, ktRank, ktOk>>
    /\ UNCHANGED notKt

\* unflatten applied to the input flat record, or to what flatten returned
KtUnflatten ==
    /\ \/ ktStage = "flat_in" /\ ktStage' = "unflattened"
            /\ LET r == unflatten(ktIn) IN ktOk' = r.ok /\ ktCur' = r.kids
       \/ ktStage = "flattened" /\ ktStage' = "tree_back"
            /\ LET r == unflatten(ktCur) IN ktOk' = r.ok /\ ktCur' = r.kids
    /\ UNCHANGED <<ktIn, ktRank>>
    /\ UNCHANGED notKt

KtNext == KtFlatten \/ KtUnflatten

SpecTree == KtInit /\ [][KtNext]_vars

(***************************************************************************)
(* DatasetSampler, one caller: sample(n_designs, split) as one step        *)
(***************************************************************************)
\* what a fetch of the geometry archive could be served: nothing, or a dataset
NetOutcomes == {NetDown, Some(Dataset(<<1>>, [k \in {1} |-> NoId]))}

SmInit ==
    /\ disk \in {Absent} \cup {Some(d) : d \in Datasets}
    /\ _cache = None
    /\ loads = 0
    /\ last = NoCall
    /\ CallersIdle
    /\ KtOff
    /\ CaOff
    /\ RestOff

\* sample(n_designs, split), lines 129-147
sample(n, split) ==
    \E net \in NetOutcomes :
        LET g == IF _cache = None THEN geometry_data_cached(disk, net)
                 ELSE Returned(_cache[1])
        IN IF ~g.ok
           THEN /\ last' = [n |-> n, split |-> split, status |-> "FetchFailed",
                            items |-> <<>>, wrote |-> FALSE, before |-> _cache]
                /\ UNCHANGED <<_cache, loads>>
           ELSE LET c == IF _cache = None THEN Augment(g.val) ELSE g.val
                    r == Select(c, n, split)
                IN /\ _cache' = Some(c)
                   /\ loads' = IF _cache = None THEN loads + 1 ELSE loads
                   /\ last' = [n |-> n, split |-> split, status |-> r.status,
                               items |-> r.items, wrote |-> (_cache = None),
                               before |-> _cache]

Sample ==
    /\ \E n \in 0..MaxCount, split \in Splits : sample(n, split)
    /\ UNCHANGED <<disk, pc, arg, res, wrote>>
    /\ UNCHANGED notSm

SmNext == Sample

SpecSample == SmInit /\ [][SmNext]_vars

(***************************************************************************)
(* DatasetSampler, concurrent callers: each caller executes sample line by *)
(* line; the steps of different callers interleave.                        *)
(***************************************************************************)
RaceInit ==
    /\ disk \in {Absent} \cup {Some(d) : d \in SortedDatasets}
    /\ _cache = None
    /\ loads = 0
    /\ last = NoCall
    /\ CallersIdle
    /\ KtOff
    /\ CaOff
    /\ RestOff

\* a caller enters sample(n, split)
Call(t) ==
    /\ pc[t] = "idle"
    /\ \E n \in 0..RaceCount, split \in Splits :
            arg' = [arg EXCEPT ![t] = [n |-> n, split |-> split]]
    /\ pc' = [pc EXCEPT ![t] = "l131"]
    /\ res' = [res EXCEPT ![t] = NoCall]
    /\ wrote' = [wrote EXCEPT ![t] = FALSE]
    /\ UNCHANGED <<disk, _cache, loads, last>>
    /\ UNCHANGED notSm

\* line 131: if _cache is None
L131(t) ==
    /\ pc[t] = "l131"
    /\ pc' = [pc EXCEPT ![t] = IF _cache = None THEN "l132" ELSE "l136"]
    /\ UNCHANGED <<disk, _cache, loads, last, arg, res, wrote>>
    /\ UNCHANGED notSm

\* line 132: _cache = geometry_data()
L132(t) ==
    /\ pc[t] = "l132"
    /\ \E net \in NetOutcomes :
        LET g == geometry_data_cached(disk, net)
        IN IF g.ok
           THEN /\ _cache' = Some(g.val)
                /\ loads' = loads + 1
                /\ wrote' = [wrote EXCEPT ![t] = TRUE]
                /\ pc' = [pc EXCEPT ![t] = "l134"]
                /\ UNCHANGED res
           ELSE /\ res' = [res EXCEPT ![t] =
                        [n |-> arg[t].n, split |-> arg[t].split, status |-> "FetchFailed",
                         items |-> <<>>, wrote |-> wrote[t], before |-> None]]
                /\ pc' = [pc EXCEPT ![t] = "idle"]
                /\ UNCHANGED <<_cache, loads, wrote>>
    /\ UNCHANGED <<disk, last, arg>>
    /\ UNCHANGED notSm

\* line 134: _cache = type(_cache)({k: type(v)({'id': k, **v}) ...})
L134(t) ==
    /\ pc[t] = "l134"
    /\ _cache' = Some(Augment(_cache[1]))
    /\ pc' = [pc EXCEPT ![t] = "l136"]
    /\ UNCHANGED <<disk, loads, last, arg, res, wrote>>
    /\ UNCHANGED notSm

\* lines 136-147: split, index, return (or raise)
L136(t) ==
    /\ pc[t] = "l136"
    /\ LET r == Select(_cache[1], arg[t].n, arg[t].split)
       IN res' = [res EXCEPT ![t] =
                    [n |-> arg[t].n, split |-> arg[t].split, status |-> r.status,
                     items |-> r.items, wrote |-> wrote[t], before |-> None]]
    /\ pc' = [pc EXCEPT ![t] = "idle"]
    /\ UNCHANGED <<disk, _cache, loads, last, arg, wrote>>
    /\ UNCHANGED notSm

RaceNext == \E t \in Callers : Call(t) \/ L131(t) \/ L132(t) \/ L134(t) \/ L136(t)

SpecRace == RaceInit /\ [][RaceNext]_vars

(***************************************************************************)
(* ArtifactCache and ParallelDerivation.  svg_data and the cached path of  *)
(* geometry_data are one step each; geometry_data(regenerate=True) is the  *)
(* dispatch, the workers' steps and the collection after the barrier.      *)
(***************************************************************************)
CaInit ==
    /\ fs \in [zip : {Absent, Some(CorruptZip), Some(ZipOf(RemoteCorpus))},
               svg : {Absent} \cup {Some(SvgCache(CorpusRows(c))) : c \in Corpora},
               geom : {Absent} \cup {Some(DerivedFrom(c)) : c \in Corpora}]
    /\ call = NoCacheCall
    /\ pool = <<>>
    /\ workers = 0
    /\ gs = <<>>
    /\ KtOff
    /\ SmOff
    /\ RestOff

Idle == call.status # "running"

\* svg_data(regenerate) called from the top level
SvgData ==
    /\ Idle
    /\ \E regenerate \in BOOLEAN, up \in BOOLEAN :
        LET r == svg_data(fs, regenerate, up)
        IN /\ fs' = r.fs
           /\ call' = [fn |-> "svg_data", regenerate |-> regenerate, up |-> up,
                       status |-> r.status, events |-> r.events, pre |-> fs.svg,
                       ret |-> r.ret]
    /\ pool' = <<>>
    /\ workers' = 0
    /\ gs' = <<>>
    /\ UNCHANGED notCa

\* geometry_data(regenerate=False), lines 105-107 and 117-126
geometry_data_fetch(f, up) ==
    IF ~NeedsBuild(f.geom, FALSE)
    THEN LET l == LoadGeom(f.geom[1])
         IN [status |-> IF l.ok THEN "ok" ELSE "raised", fs |-> f, events |-> {},
             ret |-> IF l.ok THEN Some(l.val) ELSE <<>>]
    ELSE LET d == download(GeometryUrl, Net(up, GeometryUrl))
             f2 == [f EXCEPT !.geom = write_bytes(f.geom, d)]
             l == IF d.ok THEN LoadGeom(f2.geom[1]) ELSE Raised
         IN [status |-> IF l.ok THEN "ok" ELSE "raised",
             fs |-> f2,
             events |-> {"download_geom"} \cup (IF d.ok THEN {"write_geom"} ELSE {}),
             ret |-> IF l.ok THEN Some(l.val) ELSE <<>>]

GeometryData ==
    /\ Idle
    /\ \E up \in BOOLEAN :
        LET r == geometry_data_fetch(fs, up)
        IN /\ fs' = r.fs
           /\ call' = [fn |-> "geometry_data", regenerate |-> FALSE, up |-> up,
                       status |-> r.status, events |-> r.events, pre |-> fs.geom,
                       ret |-> r.ret]
    /\ pool' = <<>>
    /\ workers' = 0
    /\ gs' = <<>>
    /\ UNCHANGED notCa

\* geometry_data(regenerate=True), lines 105-111: svg_data(), then one task per row
GeometryRegenStart ==
    /\ Idle
    /\ \E up \in BOOLEAN, w \in 1..MaxWorkers :
        LET s == svg_data(fs, FALSE, up)
            base == [fn |-> "geometry_data", regenerate |-> TRUE, up |-> up,
                     status |-> "running", events |-> {"regen_geom"} \cup s.events,
                     pre |-> fs.geom, ret |-> <<>>]
        IN /\ fs' = s.fs
           /\ IF s.status = "ok"
              THEN /\ pool' = [i \in DOMAIN s.ret[1] |->
                                  [svg |-> s.ret[1][i], st |-> "queued", tries |-> 0,
                                   out |-> None]]
                   /\ workers' = w
                   /\ call' = base
              ELSE /\ pool' = <<>>
                   /\ workers' = 0
                   /\ call' = [base EXCEPT !.status = "raised"]
    /\ gs' = <<>>
    /\ UNCHANGED notCa

Running(p) == {i \in DOMAIN p : p[i].st = "running"}

\* a free worker takes a queued item
WorkerStart(i) ==
    /\ call.status = "running"
    /\ pool[i].st = "queued"
    /\ Cardinality(Running(pool)) < workers
    /\ pool' = [pool EXCEPT ![i].st = "running", ![i].tries = @ + 1]
    /\ UNCHANGED <<fs, call, workers, gs>>
    /\ UNCHANGED notCa

\* a worker returns safe_geometry(row.id, row.svg)
WorkerDone(i) ==
    /\ call.status = "running"
    /\ pool[i].st = "running"
    /\ pool' = [pool EXCEPT ![i].st = "done",
                            ![i].out = safe_geometry(pool[i].svg.id, pool[i].svg)]
    /\ UNCHANGED <<fs, call, workers, gs>>
    /\ UNCHANGED notCa

\* pool.wait(...) returns when every dispatched item has completed
WaitReturnsEarly(p) == TRUE
WaitReturns(p) == \A i \in DOMAIN p : p[i].st = "done"

\* pool.wait returns once every item is done; lines 112-126
GeometryRegenFinish ==
    /\ call.status = "running"
    /\ WaitReturns(pool)
    /\ LET kept == KeepSuccessful([i \in DOMAIN pool |-> pool[i].out])
           f2 == [fs EXCEPT !.geom = write_bytes(fs.geom, Returned(GeomPayload(kept)))]
           l == LoadGeom(f2.geom[1])
       IN /\ gs' = kept
          /\ fs' = f2
          /\ call' = [call EXCEPT !.status = IF l.ok THEN "ok" ELSE "raised",
                                  !.events = @ \cup {"write_geom"},
                                  !.ret = IF l.ok THEN Some(l.val) ELSE <<>>]
    /\ UNCHANGED <<pool, workers>>
    /\ UNCHANGED notCa

\* a KeyboardInterrupt reaches the caller while it waits on the pool or before
\* it writes: the pool is torn down and the exception leaves geometry_data
Interrupt ==
    /\ call.status = "running"
    /\ call' = [call EXCEPT !.status = "raised", !.events = @ \cup {"interrupt"}]
    /\ pool' = <<>>
    /\ workers' = 0
    /\ UNCHANGED <<fs, gs>>
    /\ UNCHANGED notCa

CaNext ==
    \/ SvgData
    \/ GeometryData
    \/ GeometryRegenStart
    \/ \E i \in DOMAIN pool : WorkerStart(i) \/ WorkerDone(i)
    \/ GeometryRegenFinish
    \/ Interrupt

SpecCache == CaInit /\ [][CaNext]_vars

(***************************************************************************)
(* BinaryArrayCodec.  The archive entries are written by np.savez (line    *)
(* 115) in the .npy format 1.0 and read back by fastload (lines 89-99).    *)
(* A blob is a sequence of cells: plain bytes, and the characters of the   *)
(* header literal, each cell standing for one byte of the file.  An array  *)
(* is its element type, shape, memory layout and its elements in logical   *)
(* (row-major) order; an element is a number, stored little-endian.        *)
(***************************************************************************)
LenOffset == 8          \* raw[8:9]
TextOffset == 10        \* raw[10:10+headerlen]

NoHeader == [keys |-> {}, descr |-> <<>>, fortran_order |-> FALSE, shape |-> <<>>]
Byte(n) == [t |-> "byte", d |-> NoHeader, i |-> n]
Char(h, i) == [t |-> "text", d |-> h, i |-> i]
Space == Byte(32)
Newline == Byte(10)

DescrU1 == <<"|", "u", "1">>
DescrI2 == <<"<", "i", "2">>
Descrs == {DescrU1, DescrI2}
\* the element size named by the last character of the descr
ItemSize(descr) == IF descr[Len(descr)] = "1" THEN 1 ELSE 2

RECURSIVE Prod(_)
Prod(shape) == IF shape = <<>> THEN 1 ELSE Head(shape) * Prod(Tail(shape))

RECURSIVE Digits(_)
Digits(n) == IF n < 0 THEN 1 + Digits(0 - n) ELSE IF n < 10 THEN 1 ELSE 1 + Digits(n \div 10)

RECURSIVE SumDigits(_)
SumDigits(shape) == IF shape = <<>> THEN 0 ELSE Digits(Head(shape)) + SumDigits(Tail(shape))

\* len(repr(shape)): "()", "(3,)", "(3, 4)"
ReprShapeLen(shape) ==
    IF Len(shape) = 0 THEN 2
    ELSE IF Len(shape) = 1 THEN Digits(shape[1]) + 3
    ELSE SumDigits(shape) + 2 * (Len(shape) - 1) + 2

\* the length of "{'descr': '<i2', 'fortran_order': False, 'shape': (2, 2), }"
DictLen(h) ==
    1 + (IF "descr" \in h.keys THEN 9 + (Len(h.descr) + 2) + 2 ELSE 0)
      + (IF "fortran_order" \in h.keys THEN 17 + (IF h.fortran_order THEN 4 ELSE 5) + 2 ELSE 0)
      + (IF "shape" \in h.keys THEN 9 + ReprShapeLen(h.shape) + 2 ELSE 0)
      + 1

DictText(h) == [i \in 1..DictLen(h) |-> Char(h, i)]

\* the header text of format 1.0: the literal, spaces, a newline, padded so
\* that the payload starts at a multiple of 64
PadLen(h) == 64 - ((TextOffset + DictLen(h) + 1) % 64)
HeaderText(h) == DictText(h) \o [i \in 1..PadLen(h) |-> Space] \o <<Newline>>

\* magic, version 1.0, and the header length as a little-endian uint16
Prefix(hlen) ==
    <<Byte(147), Byte(78), Byte(85), Byte(77), Byte(80), Byte(89), Byte(1), Byte(0),
      Byte(hlen % 256), Byte(hlen \div 256)>>

MakeBlob(h, payload) == Prefix(Len(HeaderText(h))) \o HeaderText(h) \o payload

\* the bytes of one element
ElemBytes(e, size) == [j \in 1..size |-> Byte((e \div (256 ^ (j - 1))) % 256)]

RECURSIVE Flatten1(_)
Flatten1(ss) == IF ss = <<>> THEN <<>> ELSE Head(ss) \o Flatten1(Tail(ss))

\* numpy flags: an array is both C- and F-contiguous unless it has elements
\* and two or more axes longer than 1
FortranOnly(a) ==
    /\ a.layout = "F"
    /\ Prod(a.shape) > 0
    /\ Cardinality({k \in 1..Len(a.shape) : a.shape[k] > 1}) >= 2

\* position p of a column-major buffer, as a multi-index
RECURSIVE UnravelF(_, _)
UnravelF(p, shape) ==
    IF shape = <<>> THEN <<>>
    ELSE <<p % Head(shape)>> \o UnravelF(p \div Head(shape), Tail(shape))

\* a multi-index, as a position of the row-major order
RECURSIVE RavelC(_, _)
RavelC(idx, shape) ==
    IF shape = <<>> THEN 0
    ELSE Head(idx) * Prod(Tail(shape)) + RavelC(Tail(idx), Tail(shape))

\* array.tobytes() for a C-contiguous array, array.T.tobytes() for a
\* Fortran-contiguous one
PayloadElems(a) ==
    IF FortranOnly(a)
    THEN [p \in 1..Len(a.data) |-> a.data[RavelC(UnravelF(p - 1, a.shape), a.shape) + 1]]
    ELSE a.data

HeaderOf(a) ==
    [keys |-> {"descr", "fortran_order", "shape"}, descr |-> a.descr,
     fortran_order |-> FortranOnly(a), shape |-> a.shape]

\* np.save(a) as np.savez writes each entry
encode(a) ==
    MakeBlob(HeaderOf(a),
             Flatten1([p \in 1..Len(a.data) |-> ElemBytes(PayloadElems(a)[p], ItemSize(a.descr))]))

\* raw[a:b]
Slice(raw, a, b) == SubSeq(raw, a + 1, IF b < Len(raw) THEN b ELSE Len(raw))

IsSpace(c) == c \in {Space, Newline}

\* ast.literal_eval(text): the literal followed by nothing but whitespace
literal_eval(text) ==
    IF text # <<>> /\ text[1].t = "text"
       /\ Len(text) >= DictLen(text[1].d)
       /\ \A i \in 1..Len(text) :
             IF i <= DictLen(text[1].d) THEN text[i] = Char(text[1].d, i) ELSE IsSpace(text[i])
    THEN [ok |-> TRUE, val |-> text[1].d]
    ELSE [ok |-> FALSE, val |-> NoHeader]

\* ndarray.reshape(shape) of n elements: one axis may be -1 and is inferred
Reshape(n, shape) ==
    LET neg == {k \in 1..Len(shape) : shape[k] < 0}
        known == Prod([k \in 1..Len(shape) |-> IF shape[k] < 0 THEN 1 ELSE shape[k]])
    IN IF neg = {}
       THEN [ok |-> Prod(shape) = n, shape |-> shape]
       ELSE IF Cardinality(neg) = 1 /\ (\A k \in neg : shape[k] = 0 - 1)
               /\ known > 0 /\ n % known = 0
       THEN [ok |-> TRUE, shape |-> [k \in 1..Len(shape) |->
                                        IF shape[k] < 0 THEN n \div known ELSE shape[k]]]
       ELSE [ok |-> FALSE, shape |-> shape]

Failed(err) == [ok |-> FALSE, err |-> err, descr |-> <<>>, shape |-> <<>>, data |-> <<>>]

\* fastload(raw), lines 97-99
fastload(raw) ==
    IF Len(raw) <= LenOffset THEN Failed("IndexError")
    ELSE LET headerlen == raw[LenOffset + 1].i
             header == literal_eval(Slice(raw, TextOffset, TextOffset + headerlen))
             rest == Slice(raw, TextOffset + headerlen, Len(raw))
         IN IF ~header.ok THEN Failed("SyntaxError")
            ELSE IF "descr" \notin header.val.keys THEN Failed("KeyError")
            ELSE LET size == ItemSize(header.val.descr)
                 IN IF Len(rest) % size # 0 THEN Failed("ValueError")
                    ELSE IF "shape" \notin header.val.keys THEN Failed("KeyError")
                    ELSE LET n == Len(rest) \div size
                             r == Reshape(n, header.val.shape)
                         IN IF ~r.ok THEN Failed("ValueError")
                            ELSE [ok |-> TRUE, err |-> "none", descr |-> header.val.descr,
                                  shape |-> r.shape,
                                  data |-> [p \in 1..n |->
                                              SubSeq(rest, (p - 1) * size + 1, p * size)]]

(***************************************************************************)
(* BinaryArrayCodec inputs and specification                               *)
(***************************************************************************)
MaxRank == 2        \* axes of an array
MaxDim == 2         \* length of an axis
MaxPayload == 4     \* payload bytes of a foreign blob

Shapes == SeqsUpTo(0..MaxDim, MaxRank)

\* the arrays handed to the encoder; element i of the logical order is i
Arrays ==
    {[descr |-> d, shape |-> s, layout |-> l, data |-> [i \in 1..Prod(s) |-> i]] :
        d \in Descrs, s \in Shapes, l \in {"C", "F"}}

\* blobs that did not come from the encoder: any subset of the header keys,
\* shapes that may hold a negative axis, payloads of any length
ForeignShapes == SeqsUpTo((0 - 1)..MaxDim, MaxRank)
ForeignHeaders ==
    {[keys |-> ks, descr |-> d, fortran_order |-> FALSE, shape |-> s] :
        ks \in SUBSET {"descr", "fortran_order", "shape"}, d \in Descrs, s \in ForeignShapes}
ForeignPayload(n) == [i \in 1..n |-> Byte(i)]

CdInit ==
    /\ \/ cdStage = "array" /\ cdIn \in Arrays /\ cdRaw = <<>>
       \/ /\ cdStage = "blob"
          /\ \E h \in ForeignHeaders, n \in 0..MaxPayload :
                cdIn = [header |-> h, paylen |-> n] /\ cdRaw = MakeBlob(h, ForeignPayload(n))
    /\ cdOut = <<>>
    /\ Parked("cd")

\* line 115: np.savez writes the entry
CdEncode ==
    /\ cdStage = "array"
    /\ cdStage' = "encoded"
    /\ cdRaw' = encode(cdIn)
    /\ UNCHANGED <<cdIn, cdOut>>
    /\ UNCHANGED notCd

\* line 125: fastload(zf.read(n))
CdFastload ==
    /\ \/ cdStage = "encoded" /\ cdStage' = "decoded"
       \/ cdStage = "blob" /\ cdStage' = "loaded"
    /\ cdOut' = fastload(cdRaw)
    /\ UNCHANGED <<cdIn, cdRaw>>
    /\ UNCHANGED notCd

CdNext == CdEncode \/ CdFastload

SpecCodec == CdInit /\ [][CdNext]_vars

(***************************************************************************)
(* Interrupter (src/rebar/interrupting.py).  handle() is the SIGINT        *)
(* handler: Python runs it between two bytecodes of the main thread, so it *)
(* may run between any two lines of check().  check() is therefore one     *)
(* step per line.  sigs counts the handle() calls since the flag was last  *)
(* cleared by a call of reset(), on its own or from a raising check().     *)
(***************************************************************************)
MaxSignals == 3     \* handle() calls counted between two clearings
MaxRaises == 3      \* KeyboardInterrupts raised by check()

\* line 19: self._is_set = True
handle(is_set) == TRUE

\* line 22: self._is_set = False
resetKeepsFlag(is_set) == is_set
reset(is_set) == FALSE

InInit ==
    /\ _is_set = FALSE         \* line 10
    /\ ckPc = "idle"
    /\ sigs = 0
    /\ lastCheck = NoCheck
    /\ raises = 0
    /\ Parked("in")

\* a SIGINT is delivered: handle(signum, frame), lines 17-19
Handle ==
    /\ sigs < MaxSignals
    /\ _is_set' = handle(_is_set)
    /\ sigs' = sigs + 1
    /\ UNCHANGED <<ckPc, lastCheck, raises>>
    /\ UNCHANGED notIn

\* reset() called from outside check(), lines 21-22
Reset ==
    /\ ckPc = "idle"
    /\ _is_set' = reset(_is_set)
    /\ sigs' = 0
    /\ UNCHANGED <<ckPc, lastCheck, raises>>
    /\ UNCHANGED notIn

\* check() is called
CheckCall ==
    /\ ckPc = "idle"
    /\ raises < MaxRaises
    /\ ckPc' = "l13"
    /\ UNCHANGED <<_is_set, sigs, lastCheck, raises>>
    /\ UNCHANGED notIn

\* line 13: if self._is_set; when the flag is clear check() returns
CheckL13 ==
    /\ ckPc = "l13"
    /\ IF _is_set
       THEN ckPc' = "l14" /\ UNCHANGED lastCheck
       ELSE ckPc' = "idle" /\ lastCheck' = [out |-> "returned", sigs |-> sigs]
    /\ UNCHANGED <<_is_set, sigs, raises>>
    /\ UNCHANGED notIn

\* line 14: self.reset()
CheckL14 ==
    /\ ckPc = "l14"
    /\ _is_set' = reset(_is_set)
    /\ sigs' = 0
    /\ lastCheck' = [out |-> "raising", sigs |-> sigs]
    /\ ckPc' = "l15"
    /\ UNCHANGED raises
    /\ UNCHANGED notIn

\* line 15: raise KeyboardInterrupt()
CheckL15 ==
    /\ ckPc = "l15"
    /\ lastCheck' = [lastCheck EXCEPT !.out = "raised"]
    /\ raises' = raises + 1
    /\ ckPc' = "idle"
    /\ UNCHANGED <<_is_set, sigs>>
    /\ UNCHANGED notIn

InNext == Handle \/ Reset \/ CheckCall \/ CheckL13 \/ CheckL14 \/ CheckL15

SpecInterrupter == InInit /\ [][InNext]_vars

(***************************************************************************)
(* recording (src/onedee/recording.py).  parasite is a generator that its  *)
(* caller resumes once per step of the environment; _encode is the         *)
(* generator it delegates to while a video is encoded.  The generator's    *)
(* own steps run from a resumption to the next yield; the clock and the    *)
(* workers of the tasker advance on their own.  A captured state is known  *)
(* by its number in capture order.                                         *)
(***************************************************************************)
MaxLength == 2      \* parasite: length
MaxPeriod == 2      \* parasite: period
MaxTime == 3        \* the clock readings of a run

\* _array(plot, state), lines 23-27: the frame plotted from a state
Frame(state) == [frame_of |-> state]

\* future.done(), line 35
doneAlways(f) == TRUE
done(f) == f.done

\* future.result(), line 37
result(f) == Frame(f.state)

\* line 56: start = start + period
NextStartFromNow(s, period, now) == now + period
NextStart(s, period, now) == s + period

Yields == {"y49", "y36"}
Suspended == rcPc \in Yields \cup {"new"}

RcInit ==
    /\ clock = 0
    /\ start = 0
    /\ start0 = 0
    /\ states = <<>>
    /\ caps = 0
    /\ rcPc = "new"
    /\ rcLen \in 1..MaxLength
    /\ rcPeriod \in 1..MaxPeriod
    /\ futures = <<>>
    /\ fut = 0
    /\ fed = <<>>
    /\ path = Absent
    /\ writes = 0
    /\ Parked("rc")

\* time passes
Tick ==
    /\ rcPc # "off"
    /\ clock < MaxTime
    /\ clock' = clock + 1
    /\ UNCHANGED <<start, start0, states, caps, rcPc, rcLen, rcPeriod, futures, fut, fed,
                   path, writes>>
    /\ UNCHANGED notRc

\* a worker of the tasker finishes the task behind futures[i]
FutureDone(i) ==
    /\ ~futures[i].done
    /\ futures' = [futures EXCEPT ![i].done = TRUE]
    /\ UNCHANGED <<clock, start, start0, states, caps, rcPc, rcLen, rcPeriod, fut, fed,
                   path, writes>>
    /\ UNCHANGED notRc

\* the caller resumes the generator: the first time it runs lines 42-45, later
\* it continues after the yield it stands at
Resume ==
    /\ Suspended
    /\ IF rcPc = "new"
       THEN start' = clock /\ start0' = clock /\ states' = <<>> /\ rcPc' = "l47"
       ELSE /\ rcPc' = (IF rcPc = "y49" THEN "l51" ELSE "l35")
            /\ UNCHANGED <<start, start0, states>>
    /\ UNCHANGED <<clock, caps, rcLen, rcPeriod, futures, fut, fed, path, writes>>
    /\ UNCHANGED notRc

\* lines 47-49: if time.time() > start: states.append(env.state(env_idx)); yield
L47 ==
    /\ rcPc = "l47"
    /\ IF clock > start
       THEN states' = Append(states, caps + 1) /\ caps' = caps + 1 /\ rcPc' = "y49"
       ELSE rcPc' = "l51" /\ UNCHANGED <<states, caps>>
    /\ UNCHANGED <<clock, start, start0, rcLen, rcPeriod, futures, fut, fed, path, writes>>
    /\ UNCHANGED notRc

\* lines 51-52 and 30-33: if len(states) == length, _encode starts: one future
\* per buffered state, the encoder opened
L51 ==
    /\ rcPc = "l51"
    /\ IF Len(states) = rcLen
       THEN /\ futures' = [i \in 1..Len(states) |-> [state |-> states[i], done |-> FALSE]]
            /\ fut' = 1
            /\ fed' = <<>>
            /\ rcPc' = "l34"
       ELSE rcPc' = "l47" /\ UNCHANGED <<futures, fut, fed>>
    /\ UNCHANGED <<clock, start, start0, states, caps, rcLen, rcPeriod, path, writes>>
    /\ UNCHANGED notRc

\* line 34: for future in futures; lines 38-39 when the loop is over
L34 ==
    /\ rcPc = "l34"
    /\ rcPc' = (IF fut <= Len(futures) THEN "l35" ELSE "l53")
    /\ UNCHANGED <<clock, start, start0, states, caps, rcLen, rcPeriod, futures, fut, fed,
                   path, writes>>
    /\ UNCHANGED notRc

\* lines 35-36: while not future.done(): yield
L35 ==
    /\ rcPc = "l35"
    /\ rcPc' = (IF done(futures[fut]) THEN "l37" ELSE "y36")
    /\ UNCHANGED <<clock, start, start0, states, caps, rcLen, rcPeriod, futures, fut, fed,
                   path, writes>>
    /\ UNCHANGED notRc

\* line 37: encoder(future.result())
L37 ==
    /\ rcPc = "l37"
    /\ fed' = Append(fed, result(futures[fut]))
    /\ fut' = fut + 1
    /\ rcPc' = "l34"
    /\ UNCHANGED <<clock, start, start0, states, caps, rcLen, rcPeriod, futures, path, writes>>
    /\ UNCHANGED notRc

\* lines 52-56: video = encoder.value; path.write_bytes(video); states = [];
\* start = start + period
L53 ==
    /\ rcPc = "l53"
    /\ path' = Some(fed)
    /\ writes' = writes + 1
    /\ states' = <<>>
    /\ start' = NextStart(start, rcPeriod, clock)
    /\ rcPc' = "l47"
    /\ UNCHANGED <<clock, start0, caps, rcLen, rcPeriod, futures, fut, fed>>
    /\ UNCHANGED notRc

\* the generator's own steps
GenStep == L47 \/ L51 \/ L34 \/ L35 \/ L37 \/ L53

RcNext ==
    \/ Tick
    \/ \E i \in DOMAIN futures : FutureDone(i)
    \/ Resume
    \/ L47
    \/ L51
    \/ L34
    \/ L35
    \/ L37
    \/ L53

SpecRecording == RcInit /\ [][RcNext]_vars

\* the generator runs whenever it is not suspended, the caller resumes it, and
\* the workers finish their tasks; nothing makes the clock advance
SpecRecordingLive ==
    /\ RcInit
    /\ [][RcNext]_vars
    /\ WF_vars(GenStep)
    /\ WF_vars(Resume)
    /\ WF_vars(\E i \in DOMAIN futures : FutureDone(i))

(***************************************************************************)
(* Properties                                                              *)
(***************************************************************************)
OwnFile(f, fn) == IF fn = "svg_data" THEN f.svg ELSE f.geom
OwnRead(fn, content) ==
    IF fn = "svg_data" THEN Returned(ReadSvg(content)) ELSE LoadGeom(content)
OwnWrite(fn) == IF fn = "svg_data" THEN "write_svg" ELSE "write_geom"
OwnDownload(fn) == IF fn = "svg_data" THEN "download_svg" ELSE "download_geom"
OwnRegen(fn) == IF fn = "svg_data" THEN "regen_svg" ELSE "regen_geom"
Completed == call.status \in {"ok", "raised"}
CacheHit == Completed /\ ~call.regenerate /\ call.pre # Absent

\* C1: a call with regenerate=false on an artifact whose file exists invokes
\* neither the fetch nor the regeneration routine, writes nothing, leaves the
\* file as it was and returns what reading the existing contents gives.
C1_CacheHit ==
    CacheHit =>
        /\ call.events = {}
        /\ OwnFile(fs, call.fn) = call.pre
        /\ call.status = "ok" => call.ret = Some(OwnRead(call.fn, call.pre[1]).val)

C1_Witness ==
    /\ CacheHit
    /\ call.fn = "geometry_data"
    /\ call.status = "ok"
    /\ call.ret # Some(EmptyKids)

\* C2: a sample call that fails with the invalid-split error leaves _cache as
\* it was before the call, also when the cache had not been built yet.
C2_BogusSplitLeavesCache ==
    (last.split = "bogus" /\ last.status = "ValueError") => _cache = last.before

\* C3: with concurrent first callers the dataset is materialized at most once
\* and no caller is returned an item that lacks its id.
C3_InitialisedOnce ==
    /\ loads <= 1
    /\ \A t \in Callers :
          res[t].status = "ok" =>
              \A i \in 1..Len(res[t].items) : res[t].items[i].id # NoId

KeysOf(items) == {items[i].geom : i \in 1..Len(items)}

\* C4: over a built cache of N items the training split is the first
\* floor(0.9 N) ids of the permutation, the test split the rest; samples of at
\* most the split size from the two never share an id, and sample(N, "all")
\* returns every id exactly once.
C4_SplitsPartition ==
    _cache # None =>
        LET c == _cache[1]
            N == Cardinality(DOMAIN c.items)
            tr == SplitIds(c, "training")
            te == SplitIds(c, "test")
            all == Select(c, N, "all")
        IN /\ Len(tr) = (9 * N) \div 10
           /\ Len(tr) + Len(te) = N
           /\ \A n1 \in 0..Len(tr), n2 \in 0..Len(te) :
                 KeysOf(Select(c, n1, "training").items)
                     \cap KeysOf(Select(c, n2, "test").items) = {}
           /\ all.status = "ok"
           /\ Len(all.items) = N
           /\ KeysOf(all.items) = DOMAIN c.items

C4_Witness ==
    /\ _cache # None
    /\ Cardinality(DOMAIN _cache[1].items) = MaxN
    /\ last.status = "ok"
    /\ last.split = "test"
    /\ last.n = 1

ValidCall == last.split \in {"training", "test", "all"} /\ last.status # "FetchFailed"

\* C5 as stated: every call with a valid split returns exactly n_designs items,
\* the i-th being the item under split_ids[i mod len(split_ids)], for every
\* dataset size.
C5_AlwaysCount ==
    ValidCall =>
        LET ids == SplitIds(_cache[1], last.split)
        IN /\ last.status = "ok"
           /\ Len(last.items) = last.n
           /\ \A i \in 1..last.n :
                 last.items[i] = _cache[1].items[ids[((i - 1) % Len(ids)) + 1]]

\* C5 amended: when the split is non-empty, or n_designs is 0, the call returns
\* exactly n_designs items, the i-th being the item under
\* split_ids[i mod len(split_ids)]; an empty split with n_designs > 0 raises
\* ZeroDivisionError.
C5_CyclicSample ==
    ValidCall =>
        LET ids == SplitIds(_cache[1], last.split)
        IN IF Len(ids) > 0 \/ last.n = 0
           THEN /\ last.status = "ok"
                /\ Len(last.items) = last.n
                /\ \A i \in 1..last.n :
                      last.items[i] = _cache[1].items[ids[((i - 1) % Len(ids)) + 1]]
           ELSE last.status = "ZeroDivisionError"

C5_Witness ==
    /\ ValidCall
    /\ last.status = "ok"
    /\ last.split = "training"
    /\ Len(SplitIds(_cache[1], "training")) = 2
    /\ last.n = MaxCount
    /\ last.items[1] = last.items[3]
    /\ last.items[1] # last.items[2]

DeriveDone == call.fn = "geometry_data" /\ call.regenerate /\ call.status = "ok"

\* C6: a derivation over N rows of which k fail yields exactly N - k entries,
\* one per successful key, each the transform's result for that row; every row
\* is attempted once; this holds for every worker count and interleaving.
C6_Derive ==
    DeriveDone =>
        LET rows == ReadSvg(fs.svg[1])
            failed == {i \in DOMAIN rows : ~geometry(rows[i]).ok}
        IN /\ DOMAIN pool = DOMAIN rows
           /\ Cardinality(DOMAIN gs) = Cardinality(DOMAIN rows) - Cardinality(failed)
           /\ DOMAIN gs = {IdKey(i) : i \in (DOMAIN rows) \ failed}
           /\ \A i \in (DOMAIN rows) \ failed : gs[IdKey(i)] = Map(geometry(rows[i]).val)
           /\ \A i \in DOMAIN pool : pool[i].tries = 1 /\ pool[i].svg = rows[i]

C6_Witness ==
    /\ DeriveDone
    /\ workers = MaxWorkers
    /\ Cardinality(DOMAIN pool) = MaxItems
    /\ Cardinality(DOMAIN gs) = MaxItems - 1

\* C7: when a call raises, the file of its artifact is what it was before the
\* call and was not written; while a regeneration is still deriving, nothing
\* has been written.
C7_NoPartialFile ==
    /\ call.status \in {"raised", "running"} =>
          /\ OwnFile(fs, call.fn) = call.pre
          /\ OwnWrite(call.fn) \notin call.events

C7_Witness ==
    /\ call.status = "raised"
    /\ call.regenerate
    /\ call.fn = "svg_data"
    /\ call.pre # Absent
    /\ "download_zip" \in call.events

\* C8: a completed call with regenerate=true has run the regeneration routine,
\* has not fetched the prebuilt copy and has persisted its artifact; a call
\* with regenerate=false on an absent file, the network being up, fetches the
\* prebuilt copy, does not regenerate, and returns with the file persisted.
C8_PriorityOrder ==
    /\ (call.status = "ok" /\ call.regenerate) =>
          /\ OwnRegen(call.fn) \in call.events
          /\ OwnDownload(call.fn) \notin call.events
          /\ OwnFile(fs, call.fn) # Absent
    /\ (Completed /\ ~call.regenerate /\ call.pre = Absent /\ call.up) =>
          /\ call.status = "ok"
          /\ OwnDownload(call.fn) \in call.events
          /\ OwnRegen(call.fn) \notin call.events
          /\ OwnFile(fs, call.fn) # Absent

RECURSIVE NoSlashKeys(_)
NoSlashKeys(kids) ==
    \A k \in DOMAIN kids :
        /\ \A i \in 1..Len(k) : k[i] # Slash
        /\ kids[k].kind = "map" => NoSlashKeys(kids[k].kids)

RECURSIVE NoEmptySub(_)
NoEmptySub(kids) ==
    \A k \in DOMAIN kids :
        kids[k].kind = "map" => (DOMAIN kids[k].kids # {} /\ NoEmptySub(kids[k].kids))

\* C9 as stated: unflatten(flatten(t)) = t for every mapping t whose keys hold
\* no '/', empty mapping-valued entries included.
C9_RoundTripAnyTree ==
    (ktStage = "tree_back" /\ NoSlashKeys(ktIn)) => (ktOk /\ ktCur = ktIn)

\* C9 amended: unflatten(flatten(t)) = t for every mapping t whose keys hold no
\* '/' and in which no mapping-valued entry is empty.
C9_RoundTripTree ==
    (ktStage = "tree_back" /\ NoSlashKeys(ktIn) /\ NoEmptySub(ktIn)) =>
        (ktOk /\ ktCur = ktIn)

C9_Witness ==
    /\ ktStage = "tree_back"
    /\ NoSlashKeys(ktIn)
    /\ NoEmptySub(ktIn)
    /\ ktCur = ktIn
    /\ DOMAIN ktIn = PlainKeys
    /\ ktIn[KeyA].kind = "map"
    /\ Cardinality(DOMAIN ktIn[KeyA].kids) = 2

NonColliding(flat) ==
    \A i \in 1..Len(flat), j \in 1..Len(flat) :
        i # j => ~IsPrefix(Split(flat[i].k), Split(flat[j].k))

\* C10: for a flat record in which no key is a path-prefix of another,
\* unflatten succeeds and flatten(unflatten(r)) has the keys of r, each with
\* the value r gives it.
C10_RoundTripFlat ==
    /\ (ktStage = "unflattened" /\ NonColliding(ktIn)) => ktOk
    /\ (ktStage = "flat_back" /\ NonColliding(ktIn)) => AsMap(ktCur) = AsMap(ktIn)

C10_Witness ==
    /\ ktStage = "flat_back"
    /\ NonColliding(ktIn)
    /\ Len(ktIn) = MaxEntries
    /\ \E i \in 1..Len(ktIn) : Len(Split(ktIn[i].k)) = 2
    /\ \E i \in 1..Len(ktIn) : Len(Split(ktIn[i].k)) = 1
    /\ AsMap(ktCur) = AsMap(ktIn)

\* C11: unflatten raises whenever the flat record uses one path both as a
\* leaf and as an intermediate node, whichever of the two keys comes first.
C11_ConflictRaises ==
    (ktStage = "unflattened" /\ ~NonColliding(ktIn)) => ~ktOk

\* C12: fastload raises on every blob whose header literal lacks 'descr' or
\* 'shape', or whose payload length differs from product(shape) times the
\* element size; it returns no array for such a blob.
C12_RejectsMalformed ==
    (cdStage = "loaded"
       /\ \/ "descr" \notin cdIn.header.keys
          \/ "shape" \notin cdIn.header.keys
          \/ cdIn.paylen # Prod(cdIn.header.shape) * ItemSize(cdIn.header.descr))
    => ~cdOut.ok

\* C13: fastload of an encoded array returns the array's element type, its
\* shape and its elements, bit for bit.
C13_RoundTrip ==
    cdStage = "decoded" =>
        /\ cdOut.ok
        /\ cdOut.descr = cdIn.descr
        /\ cdOut.shape = cdIn.shape
        /\ cdOut.data = [i \in 1..Len(cdIn.data) |-> ElemBytes(cdIn.data[i], ItemSize(cdIn.descr))]

\* C14: what a completed sample call returns is what a call with the same
\* arguments returns in a fresh process over any dataset with the same ids
\* and contents, whatever the iteration order of that dataset.
C14_Deterministic ==
    (disk # Absent /\ last.status \notin {"none", "FetchFailed"}) =>
        \A d \in Datasets :
            d.items = disk[1].items =>
                LET r == Select(Augment(d), last.n, last.split)
                IN r.status = last.status /\ r.items = last.items

C14_Witness ==
    /\ disk # Absent
    /\ last.status = "ok"
    /\ last.split = "training"
    /\ last.n = MaxN
    /\ ~last.wrote
    /\ Len(disk[1].order) = MaxN
    /\ disk[1].order[1] > disk[1].order[2]

\* C15: a regenerating geometry_data call writes the geometry file only when
\* every dispatched item has completed; while an item is queued or running
\* nothing has been written, and a call interrupted during the batch leaves
\* the file as it was and keeps none of the completed results.
C15_Barrier ==
    (call.fn = "geometry_data" /\ call.regenerate) =>
        /\ "write_geom" \in call.events =>
              /\ DOMAIN pool = DOMAIN ReadSvg(fs.svg[1])
              /\ \A i \in DOMAIN pool : pool[i].st = "done"
        /\ (\E i \in DOMAIN pool : pool[i].st # "done") =>
              /\ fs.geom = call.pre
              /\ "write_geom" \notin call.events
              /\ gs = <<>>
        /\ "interrupt" \in call.events =>
              /\ call.status = "raised"
              /\ fs.geom = call.pre
              /\ "write_geom" \notin call.events
              /\ gs = <<>>

C15_Witness ==
    /\ call.fn = "geometry_data"
    /\ call.regenerate
    /\ call.status = "ok"
    /\ "write_geom" \in call.events
    /\ Cardinality(DOMAIN pool) = MaxItems
    /\ fs.geom # call.pre
    /\ call.pre # Absent

\* C16: once _cache is built no sample call changes it, and every item in it
\* carries an id equal to the key it is stored under, also when the item on
\* disk had an 'id' entry of its own.
C16_CacheStableWithIds ==
    /\ last.before # None => _cache = last.before
    /\ _cache # None =>
          \A k \in DOMAIN _cache[1].items : _cache[1].items[k].id = <<k>>

\* C17: the flag is set exactly when handle() has been called since it was
\* last cleared; a check() raises exactly when at least one such call was
\* pending and returns normally exactly when none was; the raising check()
\* clears the flag, so the signals pending at that moment, however many,
\* make one KeyboardInterrupt.
C17_FlagProtocol ==
    /\ _is_set <=> sigs > 0
    /\ lastCheck.out \in {"raising", "raised"} => lastCheck.sigs >= 1
    /\ lastCheck.out = "returned" => lastCheck.sigs = 0
    /\ ckPc = "l14" => _is_set
    /\ (ckPc = "l15" /\ sigs = 0) => ~_is_set

C17_Witness ==
    /\ ckPc = "idle"
    /\ lastCheck.out = "raised"
    /\ lastCheck.sigs = MaxSignals
    /\ raises = 1
    /\ ~_is_set

\* C18: the encoder is called only at line 37, with the result of a future
\* that is done, and call k is the frame of buffered state k; when line 35
\* finds the future not done the generator yields; when the loop ends every
\* buffered state has been handed over once, in order.
C18_InOrderOnce ==
    [][/\ (fed' # fed /\ fed' # <<>>) =>
             /\ rcPc = "l37"
             /\ futures[Len(fed) + 1].done
             /\ fed' = Append(fed, Frame(states[Len(fed) + 1]))
       /\ (rcPc = "l35" /\ rcPc' # rcPc /\ ~futures[fut].done) => rcPc' = "y36"
       /\ (rcPc = "l34" /\ rcPc' = "l53") =>
             fed = [i \in 1..Len(states) |-> Frame(states[i])]
      ]_vars

C18_Witness ==
    /\ rcPc = "y36"
    /\ fut = 1
    /\ Len(futures) = MaxLength
    /\ ~futures[1].done
    /\ futures[MaxLength].done

\* C19: the buffer never holds more than length states; the k-th video
\* written holds the frames of the k-th run of length consecutive captures;
\* right after a write the buffer is empty; start is its first value plus
\* period for each video written, however long the encoding took.
C19_BufferAndPeriod ==
    rcPc \notin {"new"} =>
        /\ Len(states) <= rcLen
        /\ states = [i \in 1..Len(states) |-> writes * rcLen + i]
        /\ caps = writes * rcLen + Len(states)
        /\ start = start0 + writes * rcPeriod
        /\ writes > 0 =>
              /\ path # Absent
              /\ path[1] = [i \in 1..rcLen |-> Frame((writes - 1) * rcLen + i)]

C19_Witness ==
    /\ rcPc = "l47"
    /\ writes = 2
    /\ states = <<>>
    /\ rcLen = MaxLength
    /\ clock > start0 + rcPeriod + 1

\* C20: whenever the generator is running it reaches a yield, with no need
\* for the clock to advance.
C20_AlwaysYields == (~Suspended) ~> Suspended

====
